---------------------------- MODULE Spec2Model ----------------------------
(***************************************************************************)
(* Model of core/excel_processor.py (ExcelProcessor): locating the header  *)
(* row of a loosely structured sheet, mapping its columns to canonical     *)
(* fields, scanning the top block for the group number, cleaning phone     *)
(* numbers, and partitioning the rows into accepted and rejected tables.   *)
(*                                                                         *)
(* Text is a sequence of one-character strings, so that substring tests,   *)
(* case folding and the regular expressions of the source are computed     *)
(* character by character.  A sheet is a sequence of rows of cells; a cell *)
(* is a text or the missing value NaN that pandas puts in an empty cell.   *)
(* Row and column indices are zero-based, as in the source.                *)
(***************************************************************************)
EXTENDS Integers, Sequences, FiniteSets, TLC

VARIABLES
    sheet,                  \* grid of the input workbook
    input_exists,           \* whether self.input_path exists
    PHONENUMBERS_AVAILABLE, \* whether `import phonenumbers` succeeded
    injected,               \* row index at which the scenario put its header, or -1
    pc,                     \* position inside process()
    raised,                 \* exception that ended process(), or "none"
    files,                  \* names of the files present in self.outdir
    outdir_exists,          \* whether self.outdir has been created
    df_raw,                 \* raw grid read with header=None
    numero_groupe,          \* result of scan_top_for_group
    header_row_index,       \* result of find_header_row
    mapping,                \* the mapping map_columns builds and returns
    col_idx,                \* loop variable of map_columns
    work,                   \* working table
    cleaned,                \* accepted rows
    errors,                 \* rejected rows
    summary,                \* the run summary once assembled (a set of at most one record)
    processed_data          \* outcome of the last get_processed_data() call

process_vars ==
    <<sheet, input_exists, PHONENUMBERS_AVAILABLE, injected, pc, raised, files,
      outdir_exists, df_raw, numero_groupe, header_row_index, mapping, col_idx, work,
      cleaned, errors, summary, processed_data>>

\* Several ExcelProcessor objects sharing one file system.
VARIABLES
    now,                    \* datetime.now(), in whole seconds
    processors,             \* the ExcelProcessor objects constructed so far
    directories,            \* the directories that exist
    written                 \* which processor wrote which file of which directory

runs_vars == <<now, processors, directories, written>>

\* LGEstatAutomation.verify_person (core/lgestat.py)
VARIABLES
    person,                 \* the PersonData argument
    page,                   \* what the browser session will answer
    verify_pc,              \* position inside verify_person
    result                  \* the result dictionary

verify_vars == <<person, page, verify_pc, result>>

\* The state outside a single process() call.
outside_process == <<runs_vars, verify_vars>>

vars == <<process_vars, outside_process>>

----------------------------------------------------------------------------
(* Program constants                                                       *)

HEADER_SEARCH_ROWS == 60
HEADER_SEARCH_COLS == 40
TOP_SCAN_ROWS == 12
TOP_SCAN_COLS == 8

Families == {"code_perso", "nom_prenom", "courriel", "telephone"}

\* Iteration order of the dict WANTED_LABELS (and of the working table's columns).
FamilyOrder == <<"code_perso", "nom_prenom", "courriel", "telephone">>

WANTED_LABELS == [
  code_perso |-> <<
      <<"c","o","d","e"," ","p","e","r","s","o">>,
      <<"c","o","d","e","-","p","e","r","s","o","n","n","e","l">>,
      <<"c","o","d","e","p","e","r","s","o","n","n","e","l">>,
      <<"c","o","d","e">>,
      <<"i","d">>,
      <<"c","o","d","e"," ","p","e","r","s","o","n","n","e">>
  >>,
  nom_prenom |-> <<
      <<"n","o","m"," ","e","t"," ","p","r","é","n","o","m">>,
      <<"n","o","m"," ","e","t"," ","p","r","e","n","o","m">>,
      <<"n","o","m"," ","&"," ","p","r","é","n","o","m">>,
      <<"n","o","m"," ","&"," ","p","r","e","n","o","m">>,
      <<"n","o","m",","," ","p","r","é","n","o","m">>,
      <<"n","o","m",","," ","p","r","e","n","o","m">>,
      <<"n","o","m"," ","e","t"," ","p","r","é","n","o","m","s">>,
      <<"n","o","m"," ","e","t"," ","p","r","e","n","o","m","s">>,
      <<"n","o","m"," ","e","t"," ","p","r">>,
      <<"n","o","m"," ","p","r","e","n","o","m">>,
      <<"n","o","m","/","p","r","é","n","o","m">>,
      <<"n","o","m","/","p","r","e","n","o","m">>,
      <<"n","o","m">>
  >>,
  courriel |-> <<
      <<"c","o","u","r","r","i","e","l">>,
      <<"e","m","a","i","l">>,
      <<"e","-","m","a","i","l">>,
      <<"a","d","r","e","s","s","e"," ","e","m","a","i","l">>,
      <<"a","d","r","e","s","s","e"," ","c","o","u","r","r","i","e","l">>
  >>,
  telephone |-> <<
      <<"t","é","l","é","p","h","o","n","e">>,
      <<"t","e","l","e","p","h","o","n","e">>,
      <<"t","e","l">>,
      <<"n","o"," ","d","e"," ","t","é","l","é","p","h","o","n","e">>,
      <<"n","o"," ","d","e"," ","t","e","l","e","p","h","o","n","e">>,
      <<"n","u","m","e","r","o"," ","d","e"," ","t","e","l","e","p","h","o","n","e">>
  >>
]

----------------------------------------------------------------------------
(* Python values and string operations                                     *)

NaN == <<"NaN">>        \* float('nan'): the value of an empty cell
None == <<"None">>      \* Python None

Min(a, b) == IF a < b THEN a ELSE b

UpperCase == <<"A","B","C","D","E","F","G","H","I","J","K","L","M",
               "N","O","P","Q","R","S","T","U","V","W","X","Y","Z">>
LowerCase == <<"a","b","c","d","e","f","g","h","i","j","k","l","m",
               "n","o","p","q","r","s","t","u","v","w","x","y","z">>
Digits == {"0","1","2","3","4","5","6","7","8","9"}
WhiteSpace == {" ", "\t", "\n"}

\* str(x)
py_str(x) ==
    IF x = NaN THEN <<"n","a","n">>
    ELSE IF x = None THEN <<"N","o","n","e">>
    ELSE x

\* unidecode.unidecode on one character: accents are folded, ASCII is kept.
unidecode_char(ch) ==
    CASE ch = "é" -> "e"
      [] ch = "É" -> "E"
      [] OTHER -> ch

unidecode(s) == [i \in 1..Len(s) |-> unidecode_char(s[i])]

lower_char(ch) ==
    IF \E i \in 1..26 : UpperCase[i] = ch
    THEN LowerCase[CHOOSE i \in 1..26 : UpperCase[i] = ch]
    ELSE IF ch = "É" THEN "é" ELSE ch

\* str.lower()
lower(s) == [i \in 1..Len(s) |-> lower_char(s[i])]

upper_char(ch) ==
    IF \E i \in 1..26 : LowerCase[i] = ch
    THEN UpperCase[CHOOSE i \in 1..26 : LowerCase[i] = ch]
    ELSE IF ch = "é" THEN "É" ELSE ch

\* str.upper()
upper(s) == [i \in 1..Len(s) |-> upper_char(s[i])]

RECURSIVE lstrip(_)
lstrip(s) ==
    IF s = <<>> THEN s
    ELSE IF Head(s) \in WhiteSpace THEN lstrip(Tail(s)) ELSE s

RECURSIVE rstrip(_)
rstrip(s) ==
    IF s = <<>> THEN s
    ELSE IF s[Len(s)] \in WhiteSpace THEN rstrip(SubSeq(s, 1, Len(s) - 1)) ELSE s

\* str.strip()
strip(s) == rstrip(lstrip(s))

\* `lbl in cell` on strings
Contains(cell, lbl) ==
    \E i \in 0..(Len(cell) - Len(lbl)) : SubSeq(cell, i + 1, i + Len(lbl)) = lbl

StartsWith(s, p) == Len(s) >= Len(p) /\ SubSeq(s, 1, Len(p)) = p

Drop(s, n) == SubSeq(s, n + 1, Len(s))

\* Longest run of the character ch at the start of s (a greedy `ch+` or `ch*`).
RECURSIVE RunLength(_, _)
RunLength(s, ch) ==
    IF s # <<>> /\ Head(s) = ch THEN 1 + RunLength(Tail(s), ch) ELSE 0

\* re.sub(r"\\s+", " ", s): in a raw string the pattern \\s+ is a literal
\* backslash followed by one or more letters s.
RECURSIVE re_sub_backslash_s(_)
re_sub_backslash_s(s) ==
    IF s = <<>> THEN <<>>
    ELSE IF Head(s) = "\\" /\ RunLength(Tail(s), "s") >= 1
         THEN <<" ">> \o re_sub_backslash_s(Drop(Tail(s), RunLength(Tail(s), "s")))
         ELSE <<Head(s)>> \o re_sub_backslash_s(Tail(s))

norm_text(x) ==
    IF x = None THEN <<>>
    ELSE re_sub_backslash_s(strip(lower(unidecode(py_str(x)))))

----------------------------------------------------------------------------
(* The cell values of the input sheets                                     *)

cCode == <<"C","o","d","e">>  \* 'Code'
cNomPrenom == <<"N","o","m"," ","e","t"," ","P","r","é","n","o","m">>  \* 'Nom et Prénom'
cCourriel == <<"C","o","u","r","r","i","e","l">>  \* 'Courriel'
cTelephone == <<"T","é","l","é","p","h","o","n","e">>  \* 'Téléphone'
cNom == <<"N","o","m">>  \* 'Nom'
cTel == <<"T","e","l">>  \* 'Tel'
cNomCode == <<"N","o","m"," ","e","t"," ","c","o","d","e">>  \* 'Nom et code'
cEmail == <<"E","-","m","a","i","l">>  \* 'E-mail'
cNotes == <<"N","o","t","e","s">>  \* 'Notes'
cTitle == <<"R","a","p","p","o","r","t"," ","a","n","n","u","e","l">>  \* 'Rapport annuel'
cTitleSpaced == <<"R","a","p","p","o","r","t"," "," ","a","n","n","u","e","l">>  \* 'Rapport  annuel'
cListe == <<"L","i","s","t","e"," ","d","e","s"," ","n","o","m","s"," ","e","t"," ","t","e","l","e","p","h","o","n","e","s">>  \* 'Liste des noms et telephones'
cNumeroDuGroupe == <<"N","u","m","e","r","o"," ","d","u"," ","G","r","o","u","p","e">>  \* 'Numero du Groupe'
cNoDuGroupe == <<"N","o"," ","d","u"," ","g","r","o","u","p","e"," ",":">>  \* 'No du groupe :'
cFuzzyGroupe == <<"L","e"," ","n","u","m","e","r","o"," ","d","u"," ","g","r","o","u","p","e"," ","e","s","t">>  \* 'Le numero du groupe est'
cSlashGroupe == <<"n","u","m","e","r","o"," ","d","u","\\","s","g","r","o","u","p","e">>  \* 'numero du\\sgroupe'
cGroupe == <<"G","r","o","u","p","e">>  \* 'Groupe'
cG104 == <<"G","-","1","0","4">>  \* 'G-104'
cG205 == <<"G","-","2","0","5">>  \* 'G-205'
cNanText == <<"N","a","N">>  \* 'NaN'
cBlank == <<" ">>  \* ' '
cA1 == <<"A","1">>  \* 'A1'
cAnn == <<"A","n","n"," ","R","o","y">>  \* 'Ann Roy'
cMail == <<"X","@","Y",".","c","o","m">>  \* 'X@Y.com'
cPhoneCA == <<"(","5","1","4",")"," ","5","5","5","-","0","1","0","0">>  \* '(514) 555-0100'
cPhoneE164 == <<"+","1","5","1","4","5","5","5","0","1","0","0">>  \* '+15145550100'

CellPool ==
    { NaN, cCode, cNomPrenom, cCourriel, cTelephone, cNom, cTel, cNomCode, cEmail,
      cNotes, cTitle, cTitleSpaced, cListe, cNumeroDuGroupe, cNoDuGroupe, cFuzzyGroupe,
      cSlashGroupe, cGroupe, cG104, cG205, cNanText, cBlank, cA1, cAnn, cMail,
      cPhoneCA, cPhoneE164 }

\* norm_text of every cell value, computed once.
NormText == [x \in CellPool |-> norm_text(x)]

----------------------------------------------------------------------------
(* DataFrame access                                                        *)

n_rows_of(df) == Len(df)                                  \* len(df)
n_cols_of(df) == IF Len(df) = 0 THEN 0 ELSE Len(df[1])    \* df.shape[1]
iloc(df, r, c) == df[r + 1][c + 1]                        \* df.iloc[r, c]

----------------------------------------------------------------------------
(* find_header_row                                                         *)

Labels(family) == { WANTED_LABELS[family][i] : i \in 1..Len(WANTED_LABELS[family]) }

\* any(lbl in cell for lbl in family), cell already normalized
label_in_cell(family, cell) == \E lbl \in Labels(family) : Contains(cell, lbl)

\* The families a cell value hits, computed once per cell value.
FamilyHits == [x \in CellPool |-> { f \in Families : label_in_cell(f, NormText[x]) }]

\* hits of row r: the families with a label in one of the first n_cols cells
row_hits(df, r, n_cols) ==
    Cardinality({ f \in Families :
                    \E c \in 0..(n_cols - 1) : f \in FamilyHits[iloc(df, r, c)] })

HeaderNotFound == -1    \* stands for the RuntimeError of find_header_row

RECURSIVE find_header_from(_, _, _, _)
find_header_from(df, r, n_rows, n_cols) ==
    IF r >= n_rows THEN HeaderNotFound
    ELSE IF row_hits(df, r, n_cols) >= 2 THEN r
    ELSE find_header_from(df, r + 1, n_rows, n_cols)

\* Variant: picks the row with the most family hits instead of the first one.
find_header_row_best(df) ==
    LET n_rows == Min(HEADER_SEARCH_ROWS, n_rows_of(df))
        n_cols == Min(HEADER_SEARCH_COLS, n_cols_of(df))
        good == { r \in 0..(n_rows - 1) : row_hits(df, r, n_cols) >= 2 }
    IN  IF good = {} THEN HeaderNotFound
        ELSE CHOOSE r \in good :
                \A q \in good :
                    \/ row_hits(df, q, n_cols) < row_hits(df, r, n_cols)
                    \/ (row_hits(df, q, n_cols) = row_hits(df, r, n_cols) /\ r <= q)

\* Variant: scans every column of the sheet, not only the first HEADER_SEARCH_COLS.
find_header_row_all_cols(df) ==
    find_header_from(df, 0, Min(HEADER_SEARCH_ROWS, n_rows_of(df)), n_cols_of(df))

\* Variant: scans every row of the sheet, not only the first HEADER_SEARCH_ROWS.
find_header_row_all_rows(df) ==
    find_header_from(df, 0, n_rows_of(df), Min(HEADER_SEARCH_COLS, n_cols_of(df)))

find_header_row(df) ==
    find_header_from(df, 0, Min(HEADER_SEARCH_ROWS, n_rows_of(df)),
                     Min(HEADER_SEARCH_COLS, n_cols_of(df)))

----------------------------------------------------------------------------
(* map_columns                                                             *)

\* A test that accepts only a header equal to a label (not the source's).
label_matches_exact(family, n) == \E lbl \in Labels(family) : lbl = n

\* any(lbl == n or lbl in n for lbl in family)
label_matches(family, n) == \E lbl \in Labels(family) : lbl = n \/ Contains(n, lbl)

MapHits == [x \in CellPool |-> { f \in Families : label_matches(f, NormText[x]) }]

EmptyMapping == [f \in {} |-> 0]

\* Variant: mapping[canonical] = idx, the last matching column wins.
setdefault_overwrite(m, canonical, idx) ==
    [k \in (DOMAIN m) \cup {canonical} |-> IF k = canonical THEN idx ELSE m[k]]

\* mapping.setdefault(canonical, idx)
setdefault(m, canonical, idx) ==
    IF canonical \in DOMAIN m THEN m ELSE m @@ (canonical :> idx)

\* Variant: the setdefault is outside the label test.
RECURSIVE map_families_unconditional(_, _, _, _)
map_families_unconditional(m, name, idx, k) ==
    IF k > Len(FamilyOrder) THEN m
    ELSE map_families_unconditional(setdefault(m, FamilyOrder[k], idx),
                                    name, idx, k + 1)

\* the inner loop over WANTED_LABELS.items(), from the k-th family on
RECURSIVE map_families(_, _, _, _)
map_families(m, name, idx, k) ==
    IF k > Len(FamilyOrder) THEN m
    ELSE map_families(IF FamilyOrder[k] \in MapHits[name]
                      THEN setdefault(m, FamilyOrder[k], idx)
                      ELSE m,
                      name, idx, k + 1)

\* One iteration of the loop over enumerate(header_row.tolist()).
map_column(m, name, idx) ==
    IF NormText[name] = <<>> THEN m ELSE map_families(m, name, idx, 1)

----------------------------------------------------------------------------
(* scan_top_for_group                                                      *)

sNumero == <<"n","u","m","e","r","o">>
sNumeroDu == <<"n","u","m","e","r","o"," ","d","u">>
sNoDu == <<"n","o"," ","d","u">>
sGroupe == <<"g","r","o","u","p","e">>
sNumeroDuGroupe == <<"n","u","m","e","r","o"," ","d","u"," ","g","r","o","u","p","e">>
sNoDuGroupe == <<"n","o"," ","d","u"," ","g","r","o","u","p","e">>
sNumeroGroupe == <<"n","u","m","e","r","o"," ","g","r","o","u","p","e">>
sNan == <<"n","a","n">>

\* re.fullmatch(r"(numero|numero du|no du)\\s+groupe[: ]*", v): in a raw string
\* \\s+ is a literal backslash followed by one or more letters s.
re_fullmatch_group(v) ==
    \E p \in {sNumero, sNumeroDu, sNoDu} :
        /\ StartsWith(v, p)
        /\ LET rest == Drop(v, Len(p)) IN
           /\ rest # <<>>
           /\ Head(rest) = "\\"
           /\ RunLength(Tail(rest), "s") >= 1
           /\ LET after == Drop(Tail(rest), RunLength(Tail(rest), "s")) IN
              /\ StartsWith(after, sGroupe)
              /\ \A i \in (Len(sGroupe) + 1)..Len(after) : after[i] \in {":", " "}

fuzzy_group(v) ==
    \/ Contains(v, sNumeroDuGroupe)
    \/ Contains(v, sNoDuGroupe)
    \/ Contains(v, sNumeroGroupe)

cell_is_label(pass, v) ==
    IF pass = "exact" THEN re_fullmatch_group(v) ELSE fuzzy_group(v)

\* str(df_raw.iloc[r, c + 1]).strip()
adjacent_value(df, r, c) == strip(py_str(iloc(df, r, c + 1)))

\* Variant: the "nan" placeholder is not filtered out.
value_accepted_any(val) == val # <<>>

\* val and val.lower() != "nan"
value_accepted(val) == val # <<>> /\ lower(val) # sNan

NoValue == <<"no value">>   \* a pass that falls through without returning

\* for c in range(n_cols), from column c on: the first accepted value of row r
RECURSIVE scan_cols(_, _, _, _, _)
scan_cols(df, pass, r, c, n_cols) ==
    IF c >= n_cols THEN NoValue
    ELSE IF /\ cell_is_label(pass, NormText[iloc(df, r, c)])
            /\ c + 1 < n_cols
            /\ value_accepted(adjacent_value(df, r, c))
         THEN adjacent_value(df, r, c)
         ELSE scan_cols(df, pass, r, c + 1, n_cols)

\* for r in range(n_rows), from row r on
RECURSIVE scan_rows(_, _, _, _, _)
scan_rows(df, pass, r, n_rows, n_cols) ==
    IF r >= n_rows THEN NoValue
    ELSE IF scan_cols(df, pass, r, 0, n_cols) # NoValue
         THEN scan_cols(df, pass, r, 0, n_cols)
         ELSE scan_rows(df, pass, r + 1, n_rows, n_cols)

\* One pass of the nested loops over the top block.
scan_pass(df, pass, n_rows, n_cols) == scan_rows(df, pass, 0, n_rows, n_cols)

scan_top_for_group(df) ==
    LET n_rows == Min(TOP_SCAN_ROWS, n_rows_of(df))
        n_cols == Min(TOP_SCAN_COLS, n_cols_of(df))
        exact == scan_pass(df, "exact", n_rows, n_cols)
        fuzzy == scan_pass(df, "fuzzy", n_rows, n_cols)
    IN  IF exact # NoValue THEN exact
        ELSE IF fuzzy # NoValue THEN fuzzy
        ELSE <<>>

----------------------------------------------------------------------------
(* clean_phone                                                             *)

\* re.sub(r"[^\\d+]", "", s): in a raw string the class [^\\d+] excludes the
\* backslash, the letter d and the plus sign; every other character is removed.
KeptByPhoneRegex(ch) == ch \in {"\\", "d", "+"}
re_sub_phone(s) == SelectSeq(s, KeptByPhoneRegex)

IsDigit(ch) == ch \in Digits

ParseFailed == <<"NumberParseException">>

\* phonenumbers.parse(s, "CA"), is_valid_number and format_number(E164) for the
\* North American plan: ten national digits, optionally after the country code
\* 1, area code and exchange starting with 2..9.  Anything else does not parse
\* or does not validate.
phonenumbers_e164(s) ==
    LET digits == SelectSeq(s, IsDigit)
        plus == s # <<>> /\ Head(s) = "+"
        national ==
            IF Len(digits) = 11 /\ Head(digits) = "1" THEN Tail(digits)
            ELSE IF ~plus /\ Len(digits) = 10 THEN digits
            ELSE <<>>
    IN  IF /\ \A i \in 1..Len(s) : IsDigit(s[i]) \/ (i = 1 /\ s[i] = "+")
           /\ Len(national) = 10
           /\ national[1] \notin {"0", "1"}
           /\ national[4] \notin {"0", "1"}
        THEN <<"+", "1">> \o national
        ELSE ParseFailed

clean_phone(value) ==
    IF value = None THEN <<>>
    ELSE LET s == re_sub_phone(strip(py_str(value))) IN
         IF s = <<>> THEN <<>>
         ELSE IF PHONENUMBERS_AVAILABLE /\ phonenumbers_e164(s) # ParseFailed
              THEN phonenumbers_e164(s)
              ELSE s

----------------------------------------------------------------------------
(* process(): the working table                                            *)

WorkColumns == <<"code_perso", "nom_prenom", "courriel", "telephone">>

sRaison == "Manque phone ET nom_prenom"

\* df = pd.read_excel(..., header=header_row_index): the rows below the header
data_rows(df, h) == SubSeq(df, h + 2, Len(df))

\* get_col_idx_or_name(key) names a column of df, and that column is in df
\* (column names are distinct after normalisation in the sheets considered, so
\* df[name] is the column at mapping[key]).
has_column(m, key) == key \in DOMAIN m

\* Position of a working-table column in assignment order.
column_position(key) == CHOOSE k \in 1..Len(WorkColumns) : WorkColumns[k] = key

\* work[key] = "" assigns the scalar to every row once the table has an index;
\* assigned to the still empty table it makes an empty column, which the first
\* Series assigned afterwards reindexes, filling it with NaN.
scalar_column(m, key) ==
    IF \E k \in 1..(column_position(key) - 1) : has_column(m, WorkColumns[k])
    THEN <<>>
    ELSE NaN

source_cell(m, row, key) == row[m[key] + 1]

work_row(m, row, groupe) ==
    [ code_perso |->
        IF has_column(m, "code_perso") THEN source_cell(m, row, "code_perso")
        ELSE scalar_column(m, "code_perso"),
      nom_prenom |->
        IF has_column(m, "nom_prenom")
        THEN strip(py_str(source_cell(m, row, "nom_prenom")))
        ELSE scalar_column(m, "nom_prenom"),
      courriel |->
        IF has_column(m, "courriel")
        THEN lower(strip(py_str(source_cell(m, row, "courriel"))))
        ELSE scalar_column(m, "courriel"),
      telephone |->
        clean_phone(IF has_column(m, "telephone")
                    THEN source_cell(m, row, "telephone")
                    ELSE scalar_column(m, "telephone")),
      numero_groupe |-> groupe ]

build_work(df, h, m, groupe) ==
    IF \E key \in Families : has_column(m, key)
    THEN [i \in 1..Len(data_rows(df, h)) |-> work_row(m, data_rows(df, h)[i], groupe)]
    ELSE <<>>

\* .astype(str).apply(strip).replace({"": None}).isna().all(axis=1)
is_all_empty(w) ==
    \A k \in 1..Len(WorkColumns) : strip(py_str(w[WorkColumns[k]])) = <<>>

keep_row(w) == ~is_all_empty(w)

\* (telephone.astype(str).str.len() > 0) | (nom_prenom.astype(str).str.len() > 0)
ok_mask(w) == Len(py_str(w.telephone)) > 0 \/ Len(py_str(w.nom_prenom)) > 0

\* A complement that selects every row (not the source's ~ok_mask).
not_ok_mask_every(w) == TRUE

not_ok_mask(w) == ~ok_mask(w)

with_raison(w) == w @@ ("raison" :> sRaison)

rejected_rows(table) ==
    [i \in 1..Len(SelectSeq(table, not_ok_mask)) |->
        with_raison(SelectSeq(table, not_ok_mask)[i])]

----------------------------------------------------------------------------
(* process(): one action per step                                          *)

\* An input check placed after the creation of the output directory (not the
\* source's order).
CheckInput_after_mkdir ==
    /\ pc = "start"
    /\ outdir_exists' = TRUE
    /\ IF input_exists
       THEN pc' = "mkdir" /\ UNCHANGED raised
       ELSE pc' = "failed" /\ raised' = "FileNotFoundError"
    /\ UNCHANGED <<outside_process, processed_data,
                   sheet, input_exists, PHONENUMBERS_AVAILABLE, injected, files,
                   df_raw, numero_groupe, header_row_index, mapping, col_idx,
                   work, cleaned, errors, summary>>

CheckInput ==
    /\ pc = "start"
    /\ IF input_exists
       THEN pc' = "mkdir" /\ UNCHANGED raised
       ELSE pc' = "failed" /\ raised' = "FileNotFoundError"
    /\ UNCHANGED <<outside_process, processed_data,
                   sheet, input_exists, PHONENUMBERS_AVAILABLE, injected, files,
                   outdir_exists, df_raw, numero_groupe, header_row_index, mapping, col_idx,
                   work, cleaned, errors, summary>>

MakeOutdir ==
    /\ pc = "mkdir"
    /\ outdir_exists' = TRUE
    /\ pc' = "read_raw"
    /\ UNCHANGED <<outside_process, processed_data,
                   sheet, input_exists, PHONENUMBERS_AVAILABLE, injected, raised,
                   files, df_raw, numero_groupe, header_row_index, mapping, col_idx, work,
                   cleaned, errors, summary>>

ReadRaw ==
    /\ pc = "read_raw"
    /\ df_raw' = sheet
    /\ files' = files \cup {"input_snapshot.csv"}
    /\ pc' = "scan_group"
    /\ UNCHANGED <<outside_process, processed_data,
                   sheet, input_exists, PHONENUMBERS_AVAILABLE, injected, raised,
                   outdir_exists, numero_groupe, header_row_index, mapping, col_idx, work,
                   cleaned, errors, summary>>

ScanGroup ==
    /\ pc = "scan_group"
    /\ numero_groupe' = scan_top_for_group(df_raw)
    /\ pc' = "find_header"
    /\ UNCHANGED <<outside_process, processed_data,
                   sheet, input_exists, PHONENUMBERS_AVAILABLE, injected, raised,
                   files, outdir_exists, df_raw, header_row_index, mapping, col_idx, work,
                   cleaned, errors, summary>>

FindHeader ==
    /\ pc = "find_header"
    /\ header_row_index' = find_header_row(df_raw)
    /\ IF find_header_row(df_raw) = HeaderNotFound
       THEN pc' = "failed" /\ raised' = "RuntimeError"
       ELSE pc' = "map_columns" /\ UNCHANGED raised
    /\ UNCHANGED <<outside_process, processed_data,
                   sheet, input_exists, PHONENUMBERS_AVAILABLE, injected, files,
                   outdir_exists, df_raw, numero_groupe, mapping, col_idx, work, cleaned,
                   errors, summary>>

\* map_columns, one loop iteration per step; the return ends the call.
MapColumns ==
    /\ pc = "map_columns"
    /\ IF col_idx < Len(df_raw[header_row_index + 1])
       THEN /\ mapping' = map_column(mapping, df_raw[header_row_index + 1][col_idx + 1],
                                     col_idx)
            /\ col_idx' = col_idx + 1
            /\ pc' = pc
       ELSE /\ pc' = "build_work"
            /\ UNCHANGED <<mapping, col_idx>>
    /\ UNCHANGED <<outside_process, processed_data,
                   sheet, input_exists, PHONENUMBERS_AVAILABLE, injected, raised,
                   files, outdir_exists, df_raw, numero_groupe, header_row_index,
                   work, cleaned, errors, summary>>

BuildWork ==
    /\ pc = "build_work"
    /\ work' = build_work(df_raw, header_row_index, mapping, numero_groupe)
    /\ pc' = "filter_rows"
    /\ UNCHANGED <<outside_process, processed_data,
                   sheet, input_exists, PHONENUMBERS_AVAILABLE, injected, raised,
                   files, outdir_exists, df_raw, numero_groupe, header_row_index,
                   mapping, col_idx, cleaned, errors, summary>>

FilterRows ==
    /\ pc = "filter_rows"
    /\ work' = SelectSeq(work, keep_row)
    /\ pc' = "validate_rows"
    /\ UNCHANGED <<outside_process, processed_data,
                   sheet, input_exists, PHONENUMBERS_AVAILABLE, injected, raised,
                   files, outdir_exists, df_raw, numero_groupe, header_row_index,
                   mapping, col_idx, cleaned, errors, summary>>

ValidateRows ==
    /\ pc = "validate_rows"
    /\ cleaned' = SelectSeq(work, ok_mask)
    /\ errors' = rejected_rows(work)
    /\ pc' = "save_cleaned"
    /\ UNCHANGED <<outside_process, processed_data,
                   sheet, input_exists, PHONENUMBERS_AVAILABLE, injected, raised,
                   files, outdir_exists, df_raw, numero_groupe, header_row_index,
                   mapping, col_idx, work, summary>>

\* A step that writes the summary where the accepted rows are due (not the
\* source's order).
SaveCleaned_summary_first ==
    /\ pc = "save_cleaned"
    /\ files' = files \cup {"run_summary.json"}
    /\ pc' = "save_errors"
    /\ UNCHANGED <<outside_process, processed_data,
                   sheet, input_exists, PHONENUMBERS_AVAILABLE, injected, raised,
                   outdir_exists, df_raw, numero_groupe, header_row_index, mapping, col_idx,
                   work, cleaned, errors, summary>>

SaveCleaned ==
    /\ pc = "save_cleaned"
    /\ files' = files \cup {"cleaned_rows.csv"}
    /\ pc' = "save_errors"
    /\ UNCHANGED <<outside_process, processed_data,
                   sheet, input_exists, PHONENUMBERS_AVAILABLE, injected, raised,
                   outdir_exists, df_raw, numero_groupe, header_row_index, mapping, col_idx,
                   work, cleaned, errors, summary>>

SaveErrors ==
    /\ pc = "save_errors"
    /\ files' = files \cup {"errors.csv"}
    /\ pc' = "save_summary"
    /\ UNCHANGED <<outside_process, processed_data,
                   sheet, input_exists, PHONENUMBERS_AVAILABLE, injected, raised,
                   outdir_exists, df_raw, numero_groupe, header_row_index, mapping, col_idx,
                   work, cleaned, errors, summary>>

SaveSummary ==
    /\ pc = "save_summary"
    /\ summary' = { [ numero_groupe_detecte |-> numero_groupe,
                      rows_total |-> Len(work),
                      rows_cleaned |-> Len(cleaned),
                      rows_errors |-> Len(errors),
                      columns_mapping |-> mapping,
                      header_row_index |-> header_row_index,
                      phonenumbers_available |-> PHONENUMBERS_AVAILABLE ] }
    /\ files' = files \cup {"run_summary.json"}
    /\ pc' = "done"
    /\ UNCHANGED <<outside_process, processed_data,
                   sheet, input_exists, PHONENUMBERS_AVAILABLE, injected, raised,
                   outdir_exists, df_raw, numero_groupe, header_row_index, mapping, col_idx,
                   work, cleaned, errors>>

\* get_processed_data(), callable on the object at any time
GetProcessedData ==
    /\ pc # "idle"
    /\ processed_data' = IF "cleaned_rows.csv" \in files
                         THEN "DataFrame"
                         ELSE "FileNotFoundError"
    /\ UNCHANGED <<outside_process, sheet, input_exists, PHONENUMBERS_AVAILABLE,
                   injected, pc, raised, files, outdir_exists, df_raw, numero_groupe,
                   header_row_index, mapping, col_idx, work, cleaned, errors, summary>>

Next ==
    \/ CheckInput
    \/ MakeOutdir
    \/ ReadRaw
    \/ ScanGroup
    \/ FindHeader
    \/ MapColumns
    \/ BuildWork
    \/ FilterRows
    \/ ValidateRows
    \/ SaveCleaned
    \/ SaveErrors
    \/ SaveSummary
    \/ GetProcessedData

----------------------------------------------------------------------------
(* Several processors: __init__ and the file writes of process()          *)

MaxRuns == 2        \* processors constructed
MaxSeconds == 1     \* seconds the clock advances

\* output_dir arguments: "" is the default
OutputDirs == {"", "out"}

\* The input of a processor: a workbook with a header, one without, no file.
Inputs == {"workbook", "no_header", "missing"}

OutputFiles ==
    <<"input_snapshot.csv", "cleaned_rows.csv", "errors.csv", "run_summary.json">>

\* datetime.now().strftime("%Y%m%d_%H%M%S")
strftime(t) == t

\* Path(output_dir) if output_dir else Path(f"run_{self.ts}")
outdir_of(output_dir, ts) ==
    IF output_dir # "" THEN <<output_dir, 0>> ELSE <<"run_", ts>>

Tick ==
    /\ now < MaxSeconds
    /\ now' = now + 1
    /\ UNCHANGED <<process_vars, verify_vars, processors, directories, written>>

Construct(input, output_dir) ==
    /\ Len(processors) < MaxRuns
    /\ processors' = Append(processors,
                            [ input |-> input,
                              ts |-> strftime(now),
                              outdir |-> outdir_of(output_dir, strftime(now)),
                              pc |-> "start",
                              raised |-> "none" ])
    /\ UNCHANGED <<process_vars, verify_vars, now, directories, written>>

\* process() of processor i up to the raw read: input check, mkdir, snapshot
ProcessCheckInput(i) ==
    /\ processors[i].pc = "start"
    /\ processors' =
         [processors EXCEPT ![i] =
            IF processors[i].input = "missing"
            THEN [@ EXCEPT !.pc = "failed", !.raised = "FileNotFoundError"]
            ELSE [@ EXCEPT !.pc = "mkdir"]]
    /\ UNCHANGED <<process_vars, verify_vars, now, directories, written>>

ProcessMakeOutdir(i) ==
    /\ processors[i].pc = "mkdir"
    /\ directories' = directories \cup {processors[i].outdir}
    /\ processors' = [processors EXCEPT ![i].pc = "read_raw"]
    /\ UNCHANGED <<process_vars, verify_vars, now, written>>

\* to_csv and open(..., "w") create the file or replace its content
write_file(i, file) ==
    written \cup {[dir |-> processors[i].outdir, file |-> file, by |-> i]}

ProcessReadRaw(i) ==
    /\ processors[i].pc = "read_raw"
    /\ written' = write_file(i, "input_snapshot.csv")
    /\ processors' = [processors EXCEPT ![i].pc = "find_header"]
    /\ UNCHANGED <<process_vars, verify_vars, now, directories>>

ProcessFindHeader(i) ==
    /\ processors[i].pc = "find_header"
    /\ processors' =
         [processors EXCEPT ![i] =
            IF processors[i].input = "no_header"
            THEN [@ EXCEPT !.pc = "failed", !.raised = "RuntimeError"]
            ELSE [@ EXCEPT !.pc = "save_cleaned"]]
    /\ UNCHANGED <<process_vars, verify_vars, now, directories, written>>

ProcessSaveCleaned(i) ==
    /\ processors[i].pc = "save_cleaned"
    /\ written' = write_file(i, "cleaned_rows.csv")
    /\ processors' = [processors EXCEPT ![i].pc = "save_errors"]
    /\ UNCHANGED <<process_vars, verify_vars, now, directories>>

ProcessSaveErrors(i) ==
    /\ processors[i].pc = "save_errors"
    /\ written' = write_file(i, "errors.csv")
    /\ processors' = [processors EXCEPT ![i].pc = "save_summary"]
    /\ UNCHANGED <<process_vars, verify_vars, now, directories>>

ProcessSaveSummary(i) ==
    /\ processors[i].pc = "save_summary"
    /\ written' = write_file(i, "run_summary.json")
    /\ processors' = [processors EXCEPT ![i].pc = "done"]
    /\ UNCHANGED <<process_vars, verify_vars, now, directories>>

NextRuns ==
    \/ Tick
    \/ \E input \in Inputs, output_dir \in OutputDirs : Construct(input, output_dir)
    \/ \E i \in 1..Len(processors) : ProcessCheckInput(i)
    \/ \E i \in 1..Len(processors) : ProcessMakeOutdir(i)
    \/ \E i \in 1..Len(processors) : ProcessReadRaw(i)
    \/ \E i \in 1..Len(processors) : ProcessFindHeader(i)
    \/ \E i \in 1..Len(processors) : ProcessSaveCleaned(i)
    \/ \E i \in 1..Len(processors) : ProcessSaveErrors(i)
    \/ \E i \in 1..Len(processors) : ProcessSaveSummary(i)

\* No processor has been constructed.
NoProcessors ==
    /\ now = 0
    /\ processors = <<>>
    /\ directories = {}
    /\ written = {}

\* The single-run variables when no single run is followed.
ProcessIdle ==
    /\ sheet = <<>>
    /\ injected = -1
    /\ PHONENUMBERS_AVAILABLE = TRUE
    /\ input_exists = FALSE
    /\ pc = "idle"
    /\ raised = "none"
    /\ files = {}
    /\ outdir_exists = FALSE
    /\ df_raw = <<>>
    /\ numero_groupe = <<>>
    /\ header_row_index = HeaderNotFound
    /\ mapping = EmptyMapping
    /\ col_idx = 0
    /\ work = <<>>
    /\ cleaned = <<>>
    /\ errors = <<>>
    /\ summary = {}
    /\ processed_data = "not_called"

----------------------------------------------------------------------------
(* LGEstatAutomation.verify_person                                         *)

\* est_dans_groupe is None, True or False; the three are written as texts.
PyNone == "None"
PyTrue == "True"
PyFalse == "False"

\* Outcomes of the browser calls: the call goes through, it raises and the
\* method's handler returns the fallback, or the handler itself raises.
Outcomes == {"ok", "caught", "escapes"}

\* Texts of the group element of the page.
tG104 == <<"G","-","1","0","4">>
tG104Loose == <<" ","g","-","1","0","4"," ">>
tG205 == <<"G","-","2","0","5">>
tSpaces == <<" "," ">>
GroupTexts == {tG104, tG104Loose, tG205, tSpaces, <<>>}

\* groupe_attendu values of the persons verified
ExpectedGroups == {tG104, tG205, <<"g","-","1","0","4">>, <<>>}

Numeros == {"P001", "P002"}

\* result = {...} at the start of verify_person
initial_result(p) ==
    [ numero_personne |-> p.numero,
      groupe_attendu |-> p.groupe_attendu,
      est_dans_groupe |-> PyNone,
      groupe_trouve |-> <<>>,
      details |-> <<>> ]

\* group_element.text.strip().upper(), or "" when the element is not found
get_person_group(pg) ==
    IF pg.group = "ok" THEN upper(strip(pg.text)) ELSE <<>>

py_bool(b) == IF b THEN PyTrue ELSE PyFalse

\* A comparison made whether or not a group was read (not the source's).
compare_groups_unguarded(res, groupe_trouve) ==
    [res EXCEPT !.est_dans_groupe = py_bool(groupe_trouve = res.groupe_attendu),
                !.details = IF groupe_trouve = res.groupe_attendu
                            THEN <<"OK">>
                            ELSE <<"Groupe trouvé: ", groupe_trouve,
                                   ", Attendu: ", res.groupe_attendu>>]

\* "Compare groups": the if / else on groupe_trouve
compare_groups(res, groupe_trouve) ==
    IF groupe_trouve # <<>>
    THEN [res EXCEPT !.est_dans_groupe = py_bool(groupe_trouve = res.groupe_attendu),
                     !.details = IF groupe_trouve = res.groupe_attendu
                                 THEN <<"OK">>
                                 ELSE <<"Groupe trouvé: ", groupe_trouve,
                                        ", Attendu: ", res.groupe_attendu>>]
    ELSE [res EXCEPT !.details = <<"Impossible de trouver l'information de groupe">>]

VerifyStart ==
    /\ verify_pc = "start"
    /\ result' = initial_result(person)
    /\ verify_pc' = "search_person"
    /\ UNCHANGED <<process_vars, runs_vars, person, page>>

\* if not self.search_person(person.numero): ... return result
SearchPerson ==
    /\ verify_pc = "search_person"
    /\ CASE page.search = "ok" ->
              verify_pc' = "get_person_group" /\ UNCHANGED result
         [] page.search = "caught" ->
              /\ result' = [result EXCEPT !.details = <<"Personne non trouvée">>]
              /\ verify_pc' = "returned"
         [] page.search = "escapes" ->
              verify_pc' = "except" /\ UNCHANGED result
    /\ UNCHANGED <<process_vars, runs_vars, person, page>>

\* groupe_trouve = self.get_person_group(); result["groupe_trouve"] = groupe_trouve
GetPersonGroup ==
    /\ verify_pc = "get_person_group"
    /\ IF page.group = "escapes"
       THEN verify_pc' = "except" /\ UNCHANGED result
       ELSE /\ result' = [result EXCEPT !.groupe_trouve = get_person_group(page)]
            /\ verify_pc' = "compare"
    /\ UNCHANGED <<process_vars, runs_vars, person, page>>

CompareGroups ==
    /\ verify_pc = "compare"
    /\ result' = compare_groups(result, result.groupe_trouve)
    /\ verify_pc' = "returned"
    /\ UNCHANGED <<process_vars, runs_vars, person, page>>

\* except Exception as e: result["details"] = f"Erreur: {str(e)}"
HandleException ==
    /\ verify_pc = "except"
    /\ result' = [result EXCEPT !.details = <<"Erreur: ", "e">>]
    /\ verify_pc' = "returned"
    /\ UNCHANGED <<process_vars, runs_vars, person, page>>

NextVerify ==
    \/ VerifyStart
    \/ SearchPerson
    \/ GetPersonGroup
    \/ CompareGroups
    \/ HandleException

\* verify_person is not being followed.
VerifyIdle ==
    /\ person = [numero |-> "P001", groupe_attendu |-> <<>>]
    /\ page = [search |-> "ok", group |-> "ok", text |-> <<>>]
    /\ verify_pc = "idle"
    /\ result = initial_result(person)

----------------------------------------------------------------------------
(* Input sheets                                                            *)

ExtraRows == 1      \* rows considered beyond HEADER_SEARCH_ROWS
ExtraCols == 1      \* columns considered beyond HEADER_SEARCH_COLS
MaxDataRows == 2    \* data rows of the sheets that exercise the partition

BlankRow(w) == [i \in 1..w |-> NaN]
BlankRows(n, w) == [i \in 1..n |-> BlankRow(w)]
ShiftRow(row, s) == BlankRow(s) \o row
ShiftRows(rows, s) == [i \in 1..Len(rows) |-> ShiftRow(rows[i], s)]

Width(rows) ==
    IF rows = <<>> THEN 0
    ELSE CHOOSE w \in { Len(rows[i]) : i \in 1..Len(rows) } :
            \A i \in 1..Len(rows) : Len(rows[i]) <= w

\* A rectangular grid: every row padded with empty cells to the widest row.
Grid(rows) ==
    [i \in 1..Len(rows) |-> rows[i] \o BlankRow(Width(rows) - Len(rows[i]))]

hFull == <<cCode, cNomPrenom, cCourriel, cTelephone>>
hNomTel == <<cNom, cTel>>
hCombined == <<cNomCode, cCourriel>>
hDup == <<cNom, cCourriel, cNomPrenom, cEmail>>
hNoName == <<cCode, cCourriel, cTelephone>>
hNone == <<cNotes, cNom>>       \* labels of one family only: not a header

dFull == <<cA1, cAnn, cMail, cPhoneCA>>
dNameOnly == <<NaN, cAnn, NaN, NaN>>
dMailOnly == <<NaN, NaN, cMail, NaN>>
dPhoneOnly == <<NaN, NaN, NaN, cPhoneE164>>
dCodePhone == <<cA1, NaN, NaN, cPhoneCA>>
dBlank == <<NaN, NaN, NaN, NaN>>
dSpaces == <<NaN, cBlank, cMail, cBlank>>
dAllSpaces == <<cBlank, cBlank, cBlank, cBlank>>

\* Sheets that exercise the header search: optional title row, blank rows, the
\* header shifted to the right, a data row, optionally a later complete header.
TopsA == { <<>>, << <<cTitle>> >>, << <<cTitleSpaced>> >>, << <<cListe>> >> }
LeadsA == {0, 1} \cup ((HEADER_SEARCH_ROWS - 2)..(HEADER_SEARCH_ROWS + ExtraRows - 1))
ShiftsA == {0} \cup ((HEADER_SEARCH_COLS - 2)..(HEADER_SEARCH_COLS + ExtraCols - 1))
HeadersA == {hFull, hNomTel, hCombined, hDup, hNone}
TailsA == { <<dFull>>, <<dFull, hFull>> }

ScenariosA ==
    { [ rows |-> top \o BlankRows(lead, 1) \o ShiftRows(<<h>> \o tail, shift),
        injected |-> IF h = hNone THEN -1 ELSE Len(top) + lead,
        available |-> TRUE,
        exists |-> TRUE ] :
      top \in TopsA, lead \in LeadsA, shift \in ShiftsA, h \in HeadersA, tail \in TailsA }

\* Sheets that exercise the group scan: a label and its neighbour somewhere in
\* or just outside the top block, optionally a second labelled pair further
\* down, then the header and a data row.
LabelsB == {cNumeroDuGroupe, cNoDuGroupe, cFuzzyGroupe, cSlashGroupe, cGroupe}
PositionsB ==
    { <<0, 0>>, <<1, 2>>,
      <<TOP_SCAN_ROWS - 1, TOP_SCAN_COLS - 2>>,
      <<TOP_SCAN_ROWS - 1, TOP_SCAN_COLS - 1>>,
      <<TOP_SCAN_ROWS, 0>> }
ValuesB == {cG104, NaN, cBlank, cNanText}
SecondB == {NaN, cNumeroDuGroupe, cFuzzyGroupe}

TopBlockB(p, l, v, l2) ==
    [r \in 1..(TOP_SCAN_ROWS + 1) |->
        [c \in 1..(TOP_SCAN_COLS + 2) |->
            IF <<r - 1, c - 1>> = p THEN l
            ELSE IF <<r - 1, c - 2>> = p THEN v
            ELSE IF <<r - 1, c - 1>> = <<5, 3>> THEN l2
            ELSE IF <<r - 1, c - 1>> = <<5, 4>> /\ l2 # NaN THEN cG205
            ELSE NaN]]

ScenariosB ==
    { [ rows |-> TopBlockB(p, l, v, l2) \o <<hFull, dFull>>,
        injected |-> TOP_SCAN_ROWS + 1,
        available |-> TRUE,
        exists |-> TRUE ] :
      p \in PositionsB, l \in LabelsB, v \in ValuesB, l2 \in SecondB }

\* Sheets that exercise cleaning and partition: a header in the first row and up
\* to MaxDataRows data rows.
DataRowPool ==
    {dFull, dNameOnly, dMailOnly, dPhoneOnly, dCodePhone, dBlank, dSpaces, dAllSpaces}
\* read_excel trims the empty rows at the end of a sheet, so a block of data
\* rows never ends with one.
DataBlocks ==
    { b \in UNION { [1..n -> DataRowPool] : n \in 0..MaxDataRows } :
        b = <<>> \/ b[Len(b)] # dBlank }

\* The data row under a header without the name column.
WithoutName(d) == <<d[1], d[3], d[4]>>

ScenariosC ==
    { [ rows |-> <<h>> \o (IF h = hNoName
                           THEN [i \in 1..Len(data) |-> WithoutName(data[i])]
                           ELSE data),
        injected |-> 0,
        available |-> a,
        exists |-> TRUE ] :
      h \in {hFull, hNoName}, data \in DataBlocks, a \in BOOLEAN }

\* An empty sheet, and an input path that does not exist.
ScenariosD ==
    { [rows |-> <<>>, injected |-> -1, available |-> TRUE, exists |-> e] : e \in BOOLEAN }

Scenarios == ScenariosA \cup ScenariosB \cup ScenariosC \cup ScenariosD

----------------------------------------------------------------------------
(* Specification                                                           *)

Init ==
    /\ \E sc \in Scenarios :
        /\ sheet = Grid(sc.rows)
        /\ injected = sc.injected
        /\ PHONENUMBERS_AVAILABLE = sc.available
        /\ input_exists = sc.exists
    /\ pc = "start"
    /\ raised = "none"
    /\ files = {}
    /\ outdir_exists = FALSE
    /\ df_raw = <<>>
    /\ numero_groupe = <<>>
    /\ header_row_index = HeaderNotFound
    /\ mapping = EmptyMapping
    /\ col_idx = 0
    /\ work = <<>>
    /\ cleaned = <<>>
    /\ errors = <<>>
    /\ summary = {}
    /\ processed_data = "not_called"
    /\ NoProcessors
    /\ VerifyIdle

Spec == Init /\ [][Next]_vars

InitRuns == ProcessIdle /\ NoProcessors /\ VerifyIdle

SpecRuns == InitRuns /\ [][NextRuns]_vars

InitVerify ==
    /\ ProcessIdle
    /\ NoProcessors
    /\ person \in [numero : Numeros, groupe_attendu : ExpectedGroups]
    /\ page \in [search : Outcomes, group : Outcomes, text : GroupTexts]
    /\ verify_pc = "start"
    /\ result = initial_result(person)

SpecVerify == InitVerify /\ [][NextVerify]_vars

----------------------------------------------------------------------------
(* Properties of find_header_row                                           *)

\* find_header_row has been called in this run (it returned or raised).
HeaderSearched ==
    pc \notin {"start", "mkdir", "read_raw", "scan_group", "find_header"}
    /\ raised # "FileNotFoundError"

ScannedRows(df) == 0..(Min(HEADER_SEARCH_ROWS, n_rows_of(df)) - 1)
ScannedCols(df) == 0..(Min(HEADER_SEARCH_COLS, n_cols_of(df)) - 1)

\* The families with a label variant inside some scanned cell of row r.
FamiliesInRow(df, r) ==
    { f \in Families : \E c \in ScannedCols(df) : f \in FamilyHits[iloc(df, r, c)] }

QualifyingRow(df, r) == \E f, g \in FamiliesInRow(df, r) : f # g

\* C1: the index find_header_row returns is inside the scanned rows, its row
\* holds labels of at least two families in the scanned columns, and no row
\* above it does.
C1_FirstQualifyingRow ==
    (HeaderSearched /\ header_row_index # HeaderNotFound) =>
        /\ header_row_index \in ScannedRows(df_raw)
        /\ QualifyingRow(df_raw, header_row_index)
        /\ \A r \in 0..(header_row_index - 1) : ~QualifyingRow(df_raw, r)

\* C1 witness: a row was returned although a later scanned row hits more families.
C1_Witness ==
    /\ HeaderSearched
    /\ header_row_index # HeaderNotFound
    /\ \E r \in ScannedRows(df_raw) :
        /\ r > header_row_index
        /\ Cardinality(FamiliesInRow(df_raw, r))
              > Cardinality(FamiliesInRow(df_raw, header_row_index))

\* The scenario's header row lies inside the scan bound: its index is below
\* HEADER_SEARCH_ROWS and its labels of two families are in the scanned columns.
InjectedInBound ==
    /\ injected >= 0
    /\ injected \in ScannedRows(sheet)
    /\ QualifyingRow(sheet, injected)

\* C2 as stated: whatever the leading rows hold, the index of the injected
\* header row is returned.
C2_InjectedAlwaysReturned ==
    (HeaderSearched /\ InjectedInBound) => header_row_index = injected

\* C2 amended: the injected index is returned when no row above it holds labels
\* of two families in the scanned columns; otherwise the first such row is.
C2_InjectedUnlessEarlierQualifies ==
    (HeaderSearched /\ InjectedInBound) =>
        /\ header_row_index \in 0..injected
        /\ (\A r \in 0..(injected - 1) : ~QualifyingRow(sheet, r))
              => header_row_index = injected
        /\ \A r \in 0..(injected - 1) :
              QualifyingRow(sheet, r) => header_row_index <= r

\* C2 witness: the injected header sits below a leading title row and blank
\* rows, above a data row, and is the row returned.
C2_Witness ==
    /\ HeaderSearched
    /\ InjectedInBound
    /\ injected > 1
    /\ iloc(sheet, 0, 0) = cTitle
    /\ n_rows_of(sheet) > injected + 1
    /\ header_row_index = injected

\* C3: when no scanned row holds labels of two families, find_header_row raises
\* and process() stops there: nothing after the snapshot is written.
C3_HeaderNotFoundIsFatal ==
    (HeaderSearched /\ \A r \in ScannedRows(df_raw) : ~QualifyingRow(df_raw, r)) =>
        /\ header_row_index = HeaderNotFound
        /\ raised = "RuntimeError"
        /\ pc = "failed"
        /\ files \subseteq {"input_snapshot.csv"}
        /\ summary = {}

\* C3 witness: the run failed although a row beyond the row bound, and a row
\* whose labels start beyond the column bound, would have qualified.
C3_Witness ==
    /\ pc = "failed"
    /\ raised = "RuntimeError"
    /\ \E r \in HEADER_SEARCH_ROWS..(n_rows_of(df_raw) - 1) :
          Cardinality({ f \in Families :
              \E c \in 0..(n_cols_of(df_raw) - 1) : f \in FamilyHits[iloc(df_raw, r, c)] }) >= 2
    /\ n_cols_of(df_raw) > HEADER_SEARCH_COLS

----------------------------------------------------------------------------
(* Properties of map_columns                                               *)

\* map_columns has returned in this run.
ColumnsMapped ==
    pc \in {"build_work", "filter_rows", "validate_rows", "save_cleaned",
            "save_errors", "save_summary", "done"}

HeaderCell(c) == iloc(df_raw, header_row_index, c)
HeaderCols == 0..(n_cols_of(df_raw) - 1)

\* Column c's normalized header is non-empty and equals or contains a label of f.
ColumnMatches(f, c) ==
    /\ NormText[HeaderCell(c)] # <<>>
    /\ \E lbl \in Labels(f) :
          lbl = NormText[HeaderCell(c)] \/ Contains(NormText[HeaderCell(c)], lbl)

\* C4: a field is a key of the mapping exactly when some column matches it, it
\* is then mapped to the left-most matching column, and the keys are field
\* families.
C4_LeftmostMatchingColumn ==
    ColumnsMapped =>
        /\ DOMAIN mapping \subseteq Families
        /\ \A f \in Families :
              /\ f \in DOMAIN mapping <=> \E c \in HeaderCols : ColumnMatches(f, c)
              /\ f \in DOMAIN mapping =>
                    /\ mapping[f] \in HeaderCols
                    /\ ColumnMatches(f, mapping[f])
                    /\ \A c \in 0..(mapping[f] - 1) : ~ColumnMatches(f, c)

\* C4 witness: one field has two matching columns and is mapped to the first,
\* and another field has none and is absent.
C4_Witness ==
    /\ ColumnsMapped
    /\ \E f \in DOMAIN mapping :
          \E c \in HeaderCols : c > mapping[f] /\ ColumnMatches(f, c)
    /\ \E f \in Families : f \notin DOMAIN mapping

\* C5 as stated: no two fields are mapped to the same column.
C5_NoSharedColumn ==
    ColumnsMapped =>
        \A f, g \in DOMAIN mapping : f # g => mapping[f] # mapping[g]

\* C5 amended: two fields share a column only when that column's header cell
\* contains labels of both; a header whose cells each contain labels of at most
\* one family maps every field to a column of its own.
C5_SharedOnlyWithinOneCell ==
    ColumnsMapped =>
        /\ \A f, g \in DOMAIN mapping :
              (f # g /\ mapping[f] = mapping[g]) =>
                  (ColumnMatches(f, mapping[f]) /\ ColumnMatches(g, mapping[f]))
        /\ (\A c \in HeaderCols : Cardinality(MapHits[HeaderCell(c)]) <= 1) =>
              \A f, g \in DOMAIN mapping : f # g => mapping[f] # mapping[g]

\* C5 witness: every header cell holds labels of at most one family and all four
\* fields are mapped.
C5_Witness ==
    /\ ColumnsMapped
    /\ \A c \in HeaderCols : Cardinality(MapHits[HeaderCell(c)]) <= 1
    /\ DOMAIN mapping = Families

----------------------------------------------------------------------------
(* Properties of scan_top_for_group                                        *)

\* scan_top_for_group has returned in this run.
GroupScanned ==
    pc \notin {"start", "mkdir", "read_raw", "scan_group"}
    /\ raised # "FileNotFoundError"

TopRows(df) == 0..(Min(TOP_SCAN_ROWS, n_rows_of(df)) - 1)
TopCols(df) == 0..(Min(TOP_SCAN_COLS, n_cols_of(df)) - 1)

\* The strict group label: "numero", "numero du" or "no du", white space,
\* "groupe", then any colons and spaces.
StrictLabel(v) ==
    \E p \in {sNumero, sNumeroDu, sNoDu} :
        /\ StartsWith(v, p)
        /\ RunLength(Drop(v, Len(p)), " ") >= 1
        /\ LET after == Drop(v, Len(p) + RunLength(Drop(v, Len(p)), " ")) IN
           /\ StartsWith(after, sGroupe)
           /\ \A i \in (Len(sGroupe) + 1)..Len(after) : after[i] \in {":", " "}

\* A cell that carries a group label, strict or as a substring.
RecognizedLabel(v) ==
    \/ StrictLabel(v)
    \/ Contains(v, sNumeroDuGroupe)
    \/ Contains(v, sNoDuGroupe)
    \/ Contains(v, sNumeroGroupe)

\* str(cell).strip() is non-empty and is not the "nan" placeholder.
AcceptableValue(val) == val # <<>> /\ lower(val) # sNan

RowMajorFirst(S) ==
    CHOOSE p \in S : \A q \in S : p[1] < q[1] \/ (p[1] = q[1] /\ p[2] <= q[2])

\* Cells of the top block with a strict label and an acceptable neighbour.
StrictPairs(df) ==
    { p \in TopRows(df) \X TopCols(df) :
        /\ StrictLabel(NormText[iloc(df, p[1], p[2])])
        /\ p[2] + 1 \in TopCols(df)
        /\ AcceptableValue(adjacent_value(df, p[1], p[2])) }

\* Cells of the top block with a recognized label and an acceptable neighbour
\* in a column up to last_col.
LabelledPairs(df, last_col) ==
    { p \in TopRows(df) \X TopCols(df) :
        /\ RecognizedLabel(NormText[iloc(df, p[1], p[2])])
        /\ p[2] + 1 <= last_col
        /\ AcceptableValue(adjacent_value(df, p[1], p[2])) }

\* C6: when some cell of the top block has the strict label and an acceptable
\* neighbour, the result is the neighbour of the first such cell in row-major
\* order, whatever fuzzy-only labels precede it.
C6_ExactPassHasPriority ==
    (GroupScanned /\ StrictPairs(df_raw) # {}) =>
        numero_groupe =
            adjacent_value(df_raw, RowMajorFirst(StrictPairs(df_raw))[1],
                           RowMajorFirst(StrictPairs(df_raw))[2])

----------------------------------------------------------------------------
(* Properties of clean_phone                                               *)

\* The working table has been built and not yet filtered: row i of work comes
\* from data row i.
WorkBuilt == pc = "filter_rows"

DataRow(i) == data_rows(df_raw, header_row_index)[i]
RawPhone(i) == DataRow(i)[mapping["telephone"] + 1]

\* The digits of s in order, after its plus sign if it starts with one.
DigitsAndLeadingPlus(s) ==
    IF s # <<>> /\ Head(s) = "+"
    THEN <<"+">> \o SelectSeq(s, IsDigit)
    ELSE SelectSeq(s, IsDigit)

\* "+" followed by digits only
IsInternational(x) ==
    /\ x # NaN
    /\ Len(x) >= 2
    /\ x[1] = "+"
    /\ \A i \in 2..Len(x) : IsDigit(x[i])

\* C8: without the enhanced parser, or when it rejects the number, the cleaned
\* phone is the input with only its digits and leading plus kept.
C8_FallbackKeepsDigits ==
    (WorkBuilt /\ has_column(mapping, "telephone")) =>
        \A i \in 1..Len(work) :
            LET kept == DigitsAndLeadingPlus(strip(py_str(RawPhone(i)))) IN
            (~PHONENUMBERS_AVAILABLE \/ phonenumbers_e164(kept) = ParseFailed)
                => work[i].telephone = kept

\* C9: an international number is returned unchanged, and cleaning a cleaned
\* phone changes nothing.
C9_CleanPhoneIdempotent ==
    (WorkBuilt /\ has_column(mapping, "telephone")) =>
        \A i \in 1..Len(work) :
            /\ IsInternational(RawPhone(i)) => work[i].telephone = RawPhone(i)
            /\ clean_phone(work[i].telephone) = work[i].telephone

----------------------------------------------------------------------------
(* Properties of the partition                                             *)

\* The rows have been split into cleaned and errors.
Validated == pc \in {"save_cleaned", "save_errors", "save_summary", "done"}

Range(seq) == { seq[i] : i \in 1..Len(seq) }

\* An empty cell of the sheet: nothing, or white space only.
EmptyCell(x) == x = NaN \/ strip(x) = <<>>

SourceCell(i, key) == DataRow(i)[mapping[key] + 1]

\* C10: a data row with a phone or a name is accepted; a data row whose phone
\* and name cells are both empty, with an email or a person code, is rejected
\* with the reason attached.
C10_AcceptedIffPhoneOrName ==
    (Validated /\ DOMAIN mapping = Families) =>
        \A i \in 1..Len(data_rows(df_raw, header_row_index)) :
            LET w == work_row(mapping, DataRow(i), numero_groupe)
                named == ~EmptyCell(SourceCell(i, "nom_prenom"))
                phoned == w.telephone # <<>>
                identified == \/ ~EmptyCell(SourceCell(i, "courriel"))
                              \/ ~EmptyCell(SourceCell(i, "code_perso"))
            IN  /\ (named \/ phoned) =>
                      (w \in Range(cleaned) /\ with_raison(w) \notin Range(errors))
                /\ (~named /\ ~phoned /\ identified) =>
                      (with_raison(w) \in Range(errors) /\ w \notin Range(cleaned))

\* process() has returned its summary.
Returned == pc = "done"

DataRowCount == Len(data_rows(df_raw, header_row_index))

\* Person code, name, email and phone cells of data row i are all empty.
BlankSpacer(i) == \A key \in Families : EmptyCell(SourceCell(i, key))

\* C11: a data row whose person code, name, email and phone cells are all empty
\* is in neither table and is not counted in rows_total; a data row with one of
\* the four cells populated is in one of the tables.
C11_BlankRowsDropped ==
    (Returned /\ DOMAIN mapping = Families) =>
        /\ \A i \in 1..DataRowCount :
              LET w == work_row(mapping, DataRow(i), numero_groupe)
                  kept == w \in Range(cleaned) \/ with_raison(w) \in Range(errors)
              IN  BlankSpacer(i) <=> ~kept
        /\ \A s \in summary :
              s.rows_total = Cardinality({ i \in 1..DataRowCount : ~BlankSpacer(i) })

\* A row of errors without its reason column.
without_raison(w) == [k \in DOMAIN w \ {"raison"} |-> w[k]]

\* The rows of table at the positions marked m, in table order.
Marked(table, tags, m) ==
    LET F[i \in 0..Len(table)] ==
            IF i = 0 THEN <<>>
            ELSE IF tags[i] = m THEN Append(F[i - 1], table[i]) ELSE F[i - 1]
    IN  F[Len(table)]

\* C12: after a successful run every row of the working table is in exactly
\* one of cleaned and errors, each of the two keeps the rows in their original
\* order, and the summary counts are the lengths of the tables, adding up to
\* rows_total.
C12_StablePartition ==
    Returned =>
        /\ \E tags \in [1..Len(work) -> {"cleaned", "errors"}] :
              /\ cleaned = Marked(work, tags, "cleaned")
              /\ [i \in 1..Len(errors) |-> without_raison(errors[i])]
                    = Marked(work, tags, "errors")
        /\ \A s \in summary :
              /\ s.rows_cleaned = Len(cleaned)
              /\ s.rows_errors = Len(errors)
              /\ s.rows_total = Len(work)
              /\ s.rows_total = s.rows_cleaned + s.rows_errors
        /\ summary # {}

\* A run that returned with accepted rows and rejected rows.
C12_Witness ==
    /\ Returned
    /\ Len(cleaned) >= 1
    /\ Len(errors) >= 1
    /\ \E s \in summary : s.rows_total = 2

----------------------------------------------------------------------------
(* Properties of several runs                                              *)

\* C13: the directory a processor has written into is the output location of
\* no other processor, and no file has been written by two processors.
C13_FreshOutputLocation ==
    /\ \A w \in written : \A j \in 1..Len(processors) :
            j # w.by => processors[j].outdir # w.dir
    /\ \A a, b \in written : (a.dir = b.dir /\ a.file = b.file) => a.by = b.by

----------------------------------------------------------------------------
(* Properties of the files of one run                                      *)

ResultFiles == {"cleaned_rows.csv", "errors.csv", "run_summary.json"}

\* process() has raised.
Aborted == pc = "failed"

\* C14: an aborted run has written none of the result files; a missing input
\* raises FileNotFoundError before the output directory or any file exists; an
\* input without header raises RuntimeError with at most the snapshot written.
C14_AbortWritesNoResult ==
    Aborted =>
        /\ files \cap ResultFiles = {}
        /\ summary = {}
        /\ IF input_exists
           THEN /\ raised = "RuntimeError"
                /\ find_header_row(df_raw) = HeaderNotFound
                /\ files \subseteq {"input_snapshot.csv"}
           ELSE /\ raised = "FileNotFoundError"
                /\ ~outdir_exists
                /\ files = {}

\* The input is missing and process() has raised.
C14_Witness ==
    /\ Aborted
    /\ ~input_exists
    /\ raised = "FileNotFoundError"

\* The first k output files in the order process() writes them.
FirstOutputs(k) == { OutputFiles[i] : i \in 1..k }

\* C17: the files of a run appear in the order input_snapshot.csv,
\* cleaned_rows.csv, errors.csv, run_summary.json, so run_summary.json exists
\* only with cleaned_rows.csv and errors.csv; and get_processed_data() raises
\* FileNotFoundError as long as cleaned_rows.csv has not been written.
C17_SummaryWrittenLast ==
    /\ \E k \in 0..Len(OutputFiles) : files = FirstOutputs(k)
    /\ "run_summary.json" \in files =>
            {"cleaned_rows.csv", "errors.csv"} \subseteq files
    /\ "cleaned_rows.csv" \notin files =>
            processed_data \in {"not_called", "FileNotFoundError"}

\* get_processed_data() has failed in a run that has written its snapshot and
\* is about to write the accepted rows.
C17_Witness ==
    /\ pc = "save_cleaned"
    /\ files = {"input_snapshot.csv"}
    /\ processed_data = "FileNotFoundError"

----------------------------------------------------------------------------
(* Properties of norm_text                                                 *)

\* s with every run of white space replaced by one space
RECURSIVE collapse_spaces(_)
collapse_spaces(s) ==
    IF s = <<>> THEN <<>>
    ELSE IF Head(s) \in WhiteSpace
         THEN IF Len(s) >= 2 /\ s[2] \in WhiteSpace
              THEN collapse_spaces(Tail(s))
              ELSE <<" ">> \o collapse_spaces(Tail(s))
         ELSE <<Head(s)>> \o collapse_spaces(Tail(s))

\* The normal form of a cell value: empty for an absent or empty cell,
\* otherwise its text without accents, in lower case, trimmed, with single
\* spaces.
NormalForm(x) ==
    IF x = None \/ x = NaN \/ x = <<>> THEN <<>>
    ELSE collapse_spaces(strip(lower(unidecode(x))))

\* The cell values find_header_row has passed to norm_text.
NormalizedCells ==
    { iloc(df_raw, r, c) : r \in ScannedRows(df_raw), c \in ScannedCols(df_raw) }

\* find_header_row has just returned or raised.
HeaderJustSearched ==
    \/ pc = "map_columns" /\ col_idx = 0
    \/ pc = "failed" /\ raised = "RuntimeError"

\* C15: norm_text returns the normal form of every cell value, the empty text
\* for an absent or empty cell.
C15_NormTextNormalForm ==
    HeaderJustSearched =>
        \A x \in NormalizedCells \cup {None} : norm_text(x) = NormalForm(x)

----------------------------------------------------------------------------
(* Properties of find_header_row and map_columns together                  *)

\* The families find_header_row counted as hits in the row it returned.
LocatorHits == FamiliesInRow(df_raw, header_row_index)

\* C16: the mapping built from the row find_header_row returned has at least
\* two fields, and every family the locator counted as a hit in that row is a
\* key of it.
C16_LocatorAndMapperAgree ==
    ColumnsMapped =>
        /\ Cardinality(DOMAIN mapping) >= 2
        /\ LocatorHits \subseteq DOMAIN mapping

\* The mapper, which reads the whole row, maps a field the locator did not see
\* in the scanned columns.
C16_Witness ==
    /\ ColumnsMapped
    /\ Cardinality(LocatorHits) = 2
    /\ Cardinality(DOMAIN mapping) = 4

----------------------------------------------------------------------------
(* Properties of verify_person                                             *)

\* verify_person has returned its result.
VerifyReturned == verify_pc = "returned"

\* search_person returned True.
SearchSucceeded == page.search = "ok"

\* The group read from the page: the text of the group element, trimmed and in
\* upper case; empty when the element could not be read.
GroupRead == IF page.group = "ok" THEN upper(strip(page.text)) ELSE <<>>

\* An exception reached the handler of verify_person.
ErrorOccurred ==
    page.search = "escapes" \/ (SearchSucceeded /\ page.group = "escapes")

\* C18: verify_person always ends by returning; est_dans_groupe is True exactly
\* when the search succeeded and a non-empty group equal to groupe_attendu was
\* read, False exactly when a non-empty group different from it was read, None
\* exactly when the search failed, no group could be read or an error
\* occurred; details is "OK" only with True.
C18_VerifyPersonVerdict ==
    /\ verify_pc \in {"idle", "start", "search_person", "get_person_group",
                       "compare", "except", "returned"}
    /\ verify_pc \notin {"idle", "returned"} => ENABLED NextVerify
    /\ VerifyReturned =>
          LET read == SearchSucceeded /\ ~ErrorOccurred /\ GroupRead # <<>> IN
          /\ result.est_dans_groupe = PyTrue
                <=> (read /\ GroupRead = person.groupe_attendu)
          /\ result.est_dans_groupe = PyFalse
                <=> (read /\ GroupRead # person.groupe_attendu)
          /\ result.est_dans_groupe = PyNone
                <=> (~SearchSucceeded \/ GroupRead = <<>> \/ ErrorOccurred)
          /\ result.details = <<"OK">> => result.est_dans_groupe = PyTrue

\* The group on the page, once trimmed and in upper case, is the expected one.
C18_Witness ==
    /\ VerifyReturned
    /\ page.text = tG104Loose
    /\ result.est_dans_groupe = PyTrue
    /\ result.details = <<"OK">>

=============================================================================
